---- MODULE Spec2Model ----
(***************************************************************************)
(* Model of the domain kit of packages/core/src/domain/shared:             *)
(* AggregateRoot (event buffer), Result, ValueObject, Entity and           *)
(* DomainEvent, and of BaseUseCase.execute of packages/core/src/use-cases. *)
(*                                                                         *)
(* Arrays are heap objects: a reference is an index into `heap`, so that   *)
(* "a fresh copy" and "the same array" are different things in the model.  *)
(***************************************************************************)
EXTENDS Integers, Sequences, FiniteSets, TLC

(* ---------------------------------------------------------------- bounds *)
NumEvents == 2
MaxOps == 3
MaxHeld == 2
MaxMutations == 1
MaxResults == 3
MaxCombine == 2
MaxNum == 1
MaxComps == 2
NumEntities == 2
MaxEntityEvents == 1
MaxDates == 2
MaxEventObjs == 2

(* ------------------------------------------------------------- variables *)
VARIABLES
  heap,          \* the arrays allocated so far: heap[ref] is an array's content
  domainEvents,  \* AggregateRoot._domainEvents: a reference into heap
  held,          \* references a caller got from getUncommittedEvents, in call order
  log,           \* history of the calls made on the aggregate
  mutations,     \* how many times a holder changed a returned array
  aggLast        \* the last call on the aggregate or on a returned array

aggVars == <<heap, domainEvents, held, log, mutations, aggLast>>

VARIABLES
  rs,            \* the Result objects created so far: rs[ref] is a Result
  resLast        \* the last call on Result: its inputs and its outcome

resVars == <<rs, resLast>>

VARIABLES
  voThis,        \* the value object equals is called on
  voOther,       \* the argument of equals: a value object, null or undefined
  voLast         \* the last call on the value object and what it returned

voVars == <<voThis, voOther, voLast>>

VARIABLES
  entities,      \* the entity instances: entities[ref] is an entity's fields
  entGiven,      \* history: the id each entity was constructed with
  entLast        \* the last call on an entity and what it returned

entVars == <<entities, entGiven, entLast>>

VARIABLES
  dates,         \* the Date objects allocated so far: dates[ref] is a Date's time
  evs,           \* the domain events constructed so far: evs[ref] is an event's fields
  issued,        \* the values randomUUID has returned so far
  clock,         \* the current time, what new Date() and Date.now() read
  evGiven,       \* history: what each event reported when its constructor finished
  evLast         \* the last call on an event or a Date and its outcome

evVars == <<dates, evs, issued, clock, evGiven, evLast>>

VARIABLES
  useCase,       \* the use case: its class, authorization service and permission
  ucCall,        \* the arguments of the execute call in progress or just finished
  ucPc,          \* where execute is: the step it invokes next, or "returned"
  ucTrace,       \* history: the steps this execute has invoked, with their outcomes
  ucRet          \* the Result execute returned

ucVars == <<useCase, ucCall, ucPc, ucTrace, ucRet>>

vars == <<aggVars, resVars, voVars, entVars, evVars, ucVars>>

(* ========================================================= AggregateRoot *)
Events == 1..NumEvents
NullEvent == 0

Last(s) == s[Len(s)]
Front(s) == SubSeq(s, 1, Len(s) - 1)
RECURSIVE Reverse(_)
Reverse(s) == IF s = <<>> THEN <<>> ELSE Append(Reverse(Tail(s)), Head(s))

AggCall(op, ret, threw) == [op |-> op, ret |-> ret, threw |-> threw]

\* private _domainEvents: DomainEvent[] = [];
AggInit ==
  /\ heap = << <<>> >>
  /\ domainEvents = 1
  /\ held = <<>>
  /\ log = <<>>
  /\ mutations = 0
  /\ aggLast = AggCall("new", 0, FALSE)

\* `[]`: a new empty array
AllocEmpty(h) == Append(h, <<>>)

\* `[...arr]`: a new array with the elements of heap[ref]
AllocCopy(h, ref) == Append(h, h[ref])

\* raise with the fault of inserting the event at the front
raise_prepends(event) ==
  IF event = NullEvent
  THEN /\ aggLast' = AggCall("raise", 0, TRUE)
       /\ UNCHANGED <<heap, domainEvents>>
  ELSE /\ heap' = [heap EXCEPT ![domainEvents] = <<event>> \o @]
       /\ aggLast' = AggCall("raise", 0, FALSE)
       /\ UNCHANGED domainEvents

\* raise(event): throws on a null or undefined event, else pushes it
raise(event) ==
  IF event = NullEvent
  THEN /\ aggLast' = AggCall("raise", 0, TRUE)
       /\ UNCHANGED <<heap, domainEvents>>
  ELSE /\ heap' = [heap EXCEPT ![domainEvents] = Append(@, event)]
       /\ aggLast' = AggCall("raise", 0, FALSE)
       /\ UNCHANGED domainEvents

\* getUncommittedEvents with the fault of returning this._domainEvents itself
getUncommittedEvents_aliases ==
  /\ aggLast' = AggCall("getUncommittedEvents", domainEvents, FALSE)
  /\ UNCHANGED <<heap, domainEvents>>

\* getUncommittedEvents(): return [...this._domainEvents]
getUncommittedEvents ==
  /\ heap' = AllocCopy(heap, domainEvents)
  /\ aggLast' = AggCall("getUncommittedEvents", Len(heap) + 1, FALSE)
  /\ UNCHANGED domainEvents

\* markEventsAsCommitted with the fault of keeping the oldest event
markEventsAsCommitted_keepsFirst ==
  /\ heap' = Append(heap,
                   IF heap[domainEvents] = <<>> THEN <<>>
                   ELSE <<Head(heap[domainEvents])>>)
  /\ domainEvents' = Len(heap) + 1
  /\ aggLast' = AggCall("markEventsAsCommitted", 0, FALSE)

\* markEventsAsCommitted(): this._domainEvents = []
markEventsAsCommitted ==
  /\ heap' = AllocEmpty(heap)
  /\ domainEvents' = Len(heap) + 1
  /\ aggLast' = AggCall("markEventsAsCommitted", 0, FALSE)

\* replayEvents(events): applyEvent on each (the base applyEvent does
\* nothing), then this._domainEvents = []
replayEvents(events) ==
  /\ heap' = AllocEmpty(heap)
  /\ domainEvents' = Len(heap) + 1
  /\ aggLast' = AggCall("replayEvents", 0, FALSE)

\* What a holder of a returned array can do to it: push, pop, reverse.
ArrayPush(ref, event) ==
  /\ heap' = [heap EXCEPT ![ref] = Append(@, event)]
ArrayPop(ref) ==
  /\ heap[ref] # <<>>
  /\ heap' = [heap EXCEPT ![ref] = Front(@)]
ArrayReverse(ref) ==
  /\ Len(heap[ref]) > 1
  /\ heap' = [heap EXCEPT ![ref] = Reverse(@)]

(* ------------------------------------------------ steps of the aggregate *)
LogEntry(op, event) == [op |-> op, event |-> event]

AggRaise ==
  /\ UNCHANGED <<resVars, voVars, entVars, evVars, ucVars>>
  /\ Len(log) < MaxOps
  /\ \E event \in Events \cup {NullEvent} :
       /\ raise(event)
       /\ log' = IF event = NullEvent THEN log
                 ELSE Append(log, LogEntry("raise", event))
  /\ UNCHANGED <<held, mutations>>

AggGet ==
  /\ UNCHANGED <<resVars, voVars, entVars, evVars, ucVars>>
  /\ Len(held) < MaxHeld
  /\ getUncommittedEvents
  /\ held' = Append(held, aggLast'.ret)
  /\ UNCHANGED <<log, mutations>>

AggCommit ==
  /\ UNCHANGED <<resVars, voVars, entVars, evVars, ucVars>>
  /\ Len(log) < MaxOps
  /\ markEventsAsCommitted
  /\ log' = Append(log, LogEntry("commit", NullEvent))
  /\ UNCHANGED <<held, mutations>>

AggReplay ==
  /\ UNCHANGED <<resVars, voVars, entVars, evVars, ucVars>>
  /\ Len(log) < MaxOps
  /\ \E events \in {<<>>, <<1>>} : replayEvents(events)
  /\ log' = Append(log, LogEntry("replay", NullEvent))
  /\ UNCHANGED <<held, mutations>>

HolderPush ==
  /\ UNCHANGED <<resVars, voVars, entVars, evVars, ucVars>>
  /\ mutations < MaxMutations
  /\ mutations' = mutations + 1
  /\ \E i \in DOMAIN held, event \in Events : ArrayPush(held[i], event)
  /\ aggLast' = AggCall("push", 0, FALSE)
  /\ UNCHANGED <<domainEvents, held, log>>

HolderPop ==
  /\ UNCHANGED <<resVars, voVars, entVars, evVars, ucVars>>
  /\ mutations < MaxMutations
  /\ mutations' = mutations + 1
  /\ \E i \in DOMAIN held : ArrayPop(held[i])
  /\ aggLast' = AggCall("pop", 0, FALSE)
  /\ UNCHANGED <<domainEvents, held, log>>

HolderReverse ==
  /\ UNCHANGED <<resVars, voVars, entVars, evVars, ucVars>>
  /\ mutations < MaxMutations
  /\ mutations' = mutations + 1
  /\ \E i \in DOMAIN held : ArrayReverse(held[i])
  /\ aggLast' = AggCall("reverse", 0, FALSE)
  /\ UNCHANGED <<domainEvents, held, log>>

AggNext ==
  \/ AggRaise
  \/ AggGet
  \/ AggCommit
  \/ AggReplay
  \/ HolderPush
  \/ HolderPop
  \/ HolderReverse

(* ------------------------------------------------ claims: AggregateRoot *)
\* The events of the raise calls that follow the last commit or replay of l.
RECURSIVE EventsSince(_)
EventsSince(l) ==
  IF l = <<>> \/ Last(l).op # "raise" THEN <<>>
  ELSE Append(EventsSince(Front(l)), Last(l).event)

NoReplay(l) == \A i \in DOMAIN l : l[i].op # "replay"
HasCommit(l) == \E i \in DOMAIN l : l[i].op = "commit"
LastCommit(l) == CHOOSE i \in DOMAIN l :
  l[i].op = "commit" /\ \A j \in DOMAIN l : l[j].op = "commit" => j <= i

\* The events of all the raise calls of l after position c.
RaisedAfter(l, c) ==
  LET rest == SelectSeq(SubSeq(l, c + 1, Len(l)), LAMBDA e : e.op = "raise")
  IN [i \in DOMAIN rest |-> rest[i].event]

IsSuffix(s, t) ==
  Len(s) <= Len(t) /\ s = SubSeq(t, Len(t) - Len(s) + 1, Len(t))

Returned == heap[aggLast.ret]
HolderOps == {"push", "pop", "reverse"}

\* C1: for any sequence of raise and markEventsAsCommitted calls, what
\* getUncommittedEvents returns is exactly the events raised since
\* construction or since the last markEventsAsCommitted, each once and in the
\* order they were raised.
C1_UncommittedAreRaisedSinceCommit ==
  (aggLast.op = "getUncommittedEvents" /\ NoReplay(log))
    => Returned = EventsSince(log)

C1_Witness ==
  /\ aggLast.op = "getUncommittedEvents"
  /\ Len(log) = MaxOps
  /\ NoReplay(log)
  /\ log[1].op = "commit"
  /\ Returned = <<2, 1>>

\* C2: right after markEventsAsCommitted, getUncommittedEvents is empty; and a
\* getUncommittedEvents after a commit holds only events raised after that
\* commit (all of them, in order, unless a replay dropped some).
C2_CommitClears ==
  aggLast.op = "getUncommittedEvents" =>
    /\ (log # <<>> /\ Last(log).op = "commit") => Returned = <<>>
    /\ HasCommit(log) =>
         /\ IsSuffix(Returned, RaisedAfter(log, LastCommit(log)))
         /\ NoReplay(log) => Returned = RaisedAfter(log, LastCommit(log))

C2_Witness ==
  /\ aggLast.op = "getUncommittedEvents"
  /\ Len(log) = MaxOps
  /\ log[1].op = "raise"
  /\ log[2].op = "commit"
  /\ log[3].op = "raise"
  /\ Returned = <<log[3].event>>

\* C3: getUncommittedEvents returns a fresh array with the content of the
\* buffer (so two calls in a row return distinct arrays with the same
\* content), and a push, pop or reverse on a returned array leaves what the
\* aggregate reports unchanged.
C3_FreshCopy ==
  [][ /\ aggLast'.op = "getUncommittedEvents" =>
           /\ aggLast'.ret \notin DOMAIN heap
           /\ aggLast'.ret # domainEvents'
           /\ heap'[aggLast'.ret] = heap[domainEvents]
           /\ heap'[domainEvents'] = heap[domainEvents]
           /\ aggLast.op = "getUncommittedEvents" =>
                /\ aggLast'.ret # aggLast.ret
                /\ heap'[aggLast'.ret] = heap'[aggLast.ret]
      /\ aggLast'.op \in HolderOps =>
           /\ domainEvents' = domainEvents
           /\ heap'[domainEvents'] = heap[domainEvents]
    ]_vars

C3_Witness ==
  /\ aggLast.op \in HolderOps
  /\ Len(held) = 2
  /\ heap[domainEvents] # <<>>
  /\ heap[held[1]] # heap[domainEvents]
  /\ heap[held[2]] = heap[domainEvents]

AggregateOps == {"raise", "markEventsAsCommitted", "replayEvents"}

\* C17: an array that getUncommittedEvents returned is not changed by a later
\* raise, markEventsAsCommitted or replayEvents: the events fetched before a
\* commit are still in it after the commit.
C17_ReturnedArrayUntouched ==
  [][aggLast'.op \in AggregateOps =>
       \A i \in DOMAIN held :
         /\ held'[i] = held[i]
         /\ heap'[held[i]] = heap[held[i]]
    ]_vars

C17_Witness ==
  /\ aggLast.op = "markEventsAsCommitted"
  /\ held # <<>>
  /\ Len(heap[held[1]]) = 2
  /\ heap[domainEvents] = <<>>

(* ============================================================ JS values *)
\* A JavaScript value: its type tag t, its identity id (objects only), and
\* its number n, string s, own keys k and elements a, whichever it has.
JsVal(t, id, n, str, k, a) ==
  [t |-> t, id |-> id, n |-> n, s |-> str, k |-> k, a |-> a]

Undefined == JsVal("undefined", 0, 0, "", <<>>, <<>>)
Null == JsVal("null", 0, 0, "", <<>>, <<>>)
Num(n) == JsVal("number", 0, n, "", <<>>, <<>>)
Str(str) == JsVal("string", 0, 0, str, <<>>, <<>>)
\* new Error(msg); id tells Error objects apart (0: one made by the library)
ErrorObj(id, msg) == JsVal("Error", id, 0, msg, <<>>, <<>>)
\* an array literal
Arr(id, items) == JsVal("array", id, 0, "", <<>>, items)
\* a reference to a Result object
ResultRef(ref) == JsVal("Result", ref, 0, "", <<>>, <<>>)

Digits == <<"0", "1", "2", "3", "4", "5", "6", "7", "8", "9">>

\* String(v), for the values a callback of the model throws
String(v) ==
  CASE v.t = "string" -> v.s
    [] v.t = "number" -> Digits[v.n + 1]
    [] v.t = "null" -> "null"
    [] v.t = "undefined" -> "undefined"
    [] v.t = "Error" -> "Error: " \o v.s
    [] OTHER -> "[object Object]"

Return(v) == [kind |-> "return", val |-> v]
Throw(v) == [kind |-> "throw", val |-> v]

(* =============================================================== Result *)
\* new Result(_isSuccess, _value, _error); `by` and `arg` are history: the
\* factory that built the object and the argument it was given.
NewResult(h, isSuccess, value, error, by, arg) ==
  [rs |-> Append(h, [isSuccess |-> isSuccess, value |-> value,
                     error |-> error, by |-> by, arg |-> arg]),
   ret |-> Len(h) + 1]

\* static ok(value): new Result(true, value)
Result_ok(h, value) == NewResult(h, TRUE, value, Undefined, "ok", value)

\* fail with the fault of not storing the error
Result_fail_dropsError(h, error) ==
  NewResult(h, FALSE, Undefined, Undefined, "fail", error)

\* static fail(error): new Result(false, undefined, error)
Result_fail(h, error) == NewResult(h, FALSE, Undefined, error, "fail", error)

\* get isSuccess()
Result_isSuccess(r) == r.isSuccess

\* get isFailure()
Result_isFailure(r) == ~r.isSuccess

CannotGetValue == ErrorObj(0, "Cannot get value from failed result")

\* the value getter with the fault of not throwing on a failure
Result_value_lenient(r) == Return(r.value)

\* get value(): throws on a failure
Result_value(r) ==
  IF ~r.isSuccess THEN Throw(CannotGetValue) ELSE Return(r.value)

\* get error()
Result_error(r) == r.error

(* -------------------------------------------- callbacks given by callers *)
NoCall == [called |-> FALSE, out |-> Return(Undefined)]
Called(out) == [called |-> TRUE, out |-> out]

\* x => typeof x === 'number' ? (x + 1) % (MaxNum + 1) : 0
Succ(v) == IF v.t = "number" THEN Num((v.n + 1) % (MaxNum + 1)) ELSE Num(0)

BoomError == ErrorObj(2, "boom")

\* The callbacks given to map: value -> value, some of them throwing.
MapFns == {"succ", "identity", "throwError", "throwString", "throwNumber"}
ApplyFn(fn, v) ==
  CASE fn = "succ" -> Return(Succ(v))
    [] fn = "identity" -> Return(v)
    [] fn = "throwError" -> Throw(BoomError)
    [] fn = "throwString" -> Throw(Str("boom"))
    [] fn = "throwNumber" -> Throw(Num(1))

\* The callbacks given to flatMap: value -> Result. They build their Result
\* with Result.ok or Result.fail, or return one they captured, or throw.
FlatMapFns == {"okSucc", "failChain", "returnFirst", "throwError", "throwNumber"}
ApplyResultFn(h, fn, v) ==
  CASE fn = "okSucc" ->
         LET o == Result_ok(h, Succ(v))
         IN [rs |-> o.rs, out |-> Return(ResultRef(o.ret))]
    [] fn = "failChain" ->
         LET o == Result_fail(h, Str("Chain error"))
         IN [rs |-> o.rs, out |-> Return(ResultRef(o.ret))]
    [] fn = "returnFirst" -> [rs |-> h, out |-> Return(ResultRef(1))]
    [] fn = "throwError" -> [rs |-> h, out |-> Throw(BoomError)]
    [] fn = "throwNumber" -> [rs |-> h, out |-> Throw(Num(1))]

(* ------------------------------------------- Result: combine, map, flatMap *)
\* error instanceof Error ? error : String(error)
CaughtError(thrown) ==
  IF thrown.t = "Error" THEN thrown ELSE Str(String(thrown))

\* combine with the fault of reporting the last failure, not the first
Result_combine_lastFailure(h, results) ==
  LET failed == {j \in DOMAIN results : Result_isFailure(h[results[j]])}
      last == CHOOSE j \in failed : \A m \in failed : m <= j
  IN IF failed = {}
     THEN Result_ok(h, Arr(0, [j \in DOMAIN results |-> h[results[j]].value]))
     ELSE Result_fail(h, Result_error(h[results[last]]))

\* static combine(results): the loop from results[i] on, with the values
\* collected so far
RECURSIVE combineFrom(_, _, _, _)
combineFrom(h, results, i, values) ==
  IF i > Len(results) THEN Result_ok(h, Arr(0, values))
  ELSE LET result == h[results[i]]
       IN IF Result_isFailure(result)
          THEN Result_fail(h, Result_error(result))
          ELSE combineFrom(h, results, i + 1,
                           Append(values, Result_value(result).val))

Result_combine(h, results) == combineFrom(h, results, 1, <<>>)

WithCall(o, call) == [rs |-> o.rs, ret |-> o.ret, call |-> call]

\* map with the fault of stringifying a thrown Error too
Result_map_stringifies(h, self, fn) ==
  IF Result_isFailure(h[self])
  THEN WithCall(Result_fail(h, h[self].error), NoCall)
  ELSE LET out == ApplyFn(fn, Result_value(h[self]).val)
       IN IF out.kind = "return"
          THEN WithCall(Result_ok(h, out.val), Called(out))
          ELSE WithCall(Result_fail(h, Str(String(out.val))), Called(out))

\* map(fn)
Result_map(h, self, fn) ==
  IF Result_isFailure(h[self])
  THEN WithCall(Result_fail(h, h[self].error), NoCall)
  ELSE LET out == ApplyFn(fn, Result_value(h[self]).val)
       IN IF out.kind = "return"
          THEN WithCall(Result_ok(h, out.val), Called(out))
          ELSE WithCall(Result_fail(h, CaughtError(out.val)), Called(out))

\* flatMap with the fault of wrapping the callback's value in a new Result
Result_flatMap_rewraps(h, self, fn) ==
  IF Result_isFailure(h[self])
  THEN WithCall(Result_fail(h, h[self].error), NoCall)
  ELSE LET f == ApplyResultFn(h, fn, Result_value(h[self]).val)
       IN IF f.out.kind = "return"
          THEN WithCall(Result_ok(f.rs, f.rs[f.out.val.id].value), Called(f.out))
          ELSE WithCall(Result_fail(f.rs, CaughtError(f.out.val)), Called(f.out))

\* flatMap(fn)
Result_flatMap(h, self, fn) ==
  IF Result_isFailure(h[self])
  THEN WithCall(Result_fail(h, h[self].error), NoCall)
  ELSE LET f == ApplyResultFn(h, fn, Result_value(h[self]).val)
       IN IF f.out.kind = "return"
          THEN WithCall([rs |-> f.rs, ret |-> f.out.val.id], Called(f.out))
          ELSE WithCall(Result_fail(f.rs, CaughtError(f.out.val)), Called(f.out))

(* ------------------------------------------------------- steps of Result *)
OkValues == {Undefined, Null, Str("a")} \cup {Num(n) : n \in 0..MaxNum}
FailErrors == {Str("Error"), Str("Initial error"), ErrorObj(1, "Custom error")}

\* The lists of at most n references into h.
RECURSIVE RefLists(_, _)
RefLists(h, n) ==
  IF n = 0 THEN {<<>>}
  ELSE LET shorter == RefLists(h, n - 1)
       IN shorter \cup {Append(l, ref) : l \in shorter, ref \in DOMAIN h}

ResCall(op, self, args, fn, out, call) ==
  [op |-> op, self |-> self, args |-> args, fn |-> fn, out |-> out, call |-> call]

ResInit ==
  /\ rs = <<>>
  /\ resLast = ResCall("none", 0, <<>>, "", Return(Undefined), NoCall)

ResOk ==
  /\ UNCHANGED <<aggVars, voVars, entVars, evVars, ucVars>>
  /\ Len(rs) < MaxResults
  /\ \E value \in OkValues :
       LET o == Result_ok(rs, value)
       IN /\ rs' = o.rs
          /\ resLast' = ResCall("ok", 0, <<>>, "", Return(ResultRef(o.ret)), NoCall)

ResFail ==
  /\ UNCHANGED <<aggVars, voVars, entVars, evVars, ucVars>>
  /\ Len(rs) < MaxResults
  /\ \E error \in FailErrors :
       LET o == Result_fail(rs, error)
       IN /\ rs' = o.rs
          /\ resLast' = ResCall("fail", 0, <<>>, "", Return(ResultRef(o.ret)), NoCall)

ResValue ==
  /\ UNCHANGED <<aggVars, voVars, entVars, evVars, ucVars>>
  /\ \E self \in DOMAIN rs :
       resLast' = ResCall("value", self, <<>>, "", Result_value(rs[self]), NoCall)
  /\ UNCHANGED rs

ResCombine ==
  /\ UNCHANGED <<aggVars, voVars, entVars, evVars, ucVars>>
  /\ Len(rs) < MaxResults
  /\ \E results \in RefLists(rs, MaxCombine) :
       LET o == Result_combine(rs, results)
       IN /\ rs' = o.rs
          /\ resLast' = ResCall("combine", 0, results, "",
                                Return(ResultRef(o.ret)), NoCall)

ResMap ==
  /\ UNCHANGED <<aggVars, voVars, entVars, evVars, ucVars>>
  /\ Len(rs) < MaxResults
  /\ \E self \in DOMAIN rs, fn \in MapFns :
       LET o == Result_map(rs, self, fn)
       IN /\ rs' = o.rs
          /\ resLast' = ResCall("map", self, <<>>, fn,
                                Return(ResultRef(o.ret)), o.call)

ResFlatMap ==
  /\ UNCHANGED <<aggVars, voVars, entVars, evVars, ucVars>>
  /\ Len(rs) < MaxResults
  /\ \E self \in DOMAIN rs, fn \in FlatMapFns :
       LET o == Result_flatMap(rs, self, fn)
       IN /\ rs' = o.rs
          /\ resLast' = ResCall("flatMap", self, <<>>, fn,
                                Return(ResultRef(o.ret)), o.call)

ResNext ==
  \/ ResOk
  \/ ResFail
  \/ ResValue
  \/ ResCombine
  \/ ResMap
  \/ ResFlatMap

(* ------------------------------------------------------- claims: Result *)
\* What the claims say of one Result object, from its getters.
ExactlyOneOutcome(r) == Result_isSuccess(r) = ~Result_isFailure(r)
BuiltAsAsked(r) ==
  /\ r.by = "ok" => Result_isSuccess(r) /\ Result_error(r) = Undefined
  /\ r.by = "fail" => Result_isFailure(r) /\ Result_error(r) = r.arg

\* C4: every Result is exactly one of success and failure, and stays as it
\* was built; one built by ok(v) is a success with error undefined, one built
\* by fail(e) is a failure whose error is e.
C4_SuccessXorFailure ==
  [][\A ref \in DOMAIN rs' :
       /\ ExactlyOneOutcome(rs'[ref])
       /\ BuiltAsAsked(rs'[ref])
       /\ ref \in DOMAIN rs => rs'[ref] = rs[ref]
    ]_vars

C4_Witness ==
  /\ Len(rs) = MaxResults
  /\ rs[1].by = "fail" /\ rs[1].arg = ErrorObj(1, "Custom error")
  /\ rs[2].by = "ok" /\ rs[2].arg = Null
  /\ resLast.op = "flatMap"

\* C5: reading value on a success gives the value passed to ok, null and
\* undefined included; reading value on a failure throws the error
\* 'Cannot get value from failed result'.
C5_ValueOrThrow ==
  resLast.op = "value" =>
    LET r == rs[resLast.self]
    IN /\ r.by = "ok" => resLast.out = Return(r.arg)
       /\ Result_isFailure(r) =>
            /\ resLast.out.kind = "throw"
            /\ resLast.out.val.t = "Error"
            /\ resLast.out.val.s = "Cannot get value from failed result"

C5_Witness ==
  /\ resLast.op = "value"
  /\ resLast.out.kind = "throw"
  /\ rs[resLast.self].by = "fail"

\* C6: combine gives a failure with the error of the first failed result in
\* list order when one failed, else a success whose value is the list of all
\* the values in order; the empty list gives a success with an empty list.
C6_CombineFirstFailure ==
  resLast.op = "combine" =>
    LET results == resLast.args
        failed == {i \in DOMAIN results : ~rs[results[i]].isSuccess}
        first == CHOOSE i \in failed : \A j \in failed : i <= j
        combined == rs[resLast.out.val.id]
    IN IF failed # {}
       THEN /\ Result_isFailure(combined)
            /\ Result_error(combined) = rs[results[first]].error
       ELSE /\ Result_isSuccess(combined)
            /\ Result_value(combined).kind = "return"
            /\ Result_value(combined).val.t = "array"
            /\ Result_value(combined).val.a =
                 [i \in DOMAIN results |-> rs[results[i]].value]

C6_Witness ==
  /\ resLast.op = "combine"
  /\ Len(resLast.args) = 2
  /\ ~rs[resLast.args[1]].isSuccess
  /\ ~rs[resLast.args[2]].isSuccess
  /\ rs[resLast.args[1]].error # rs[resLast.args[2]].error

\* What map and flatMap return for a failure: a failure with the same error,
\* the callback not called.
FailurePassedOn(self, ret) ==
  /\ Result_isFailure(ret)
  /\ Result_error(ret) = Result_error(self)
  /\ ~resLast.call.called

\* C7 as stated: map(fn) on a success returns a new success holding
\* fn(value); on a failure, a failure with the same error, fn not called.
C7_MapAsStated ==
  resLast.op = "map" =>
    LET self == rs[resLast.self]
        ret == rs[resLast.out.val.id]
    IN IF Result_isSuccess(self)
       THEN /\ resLast.out.val.id # resLast.self
            /\ Result_isSuccess(ret)
            /\ Result_value(ret) = Return(ApplyFn(resLast.fn, self.value).val)
       ELSE FailurePassedOn(self, ret)

\* C7, amended: map(fn) on a success returns a new success holding fn(value)
\* when fn returns, and when fn throws a failure whose error is the thrown
\* Error, or String(thrown) for any other thrown value; on a failure, a
\* failure with the same error, fn not called.
C7_MapCatches ==
  resLast.op = "map" =>
    LET self == rs[resLast.self]
        ret == rs[resLast.out.val.id]
        out == ApplyFn(resLast.fn, self.value)
    IN IF Result_isSuccess(self)
       THEN /\ resLast.out.val.id # resLast.self
            /\ resLast.call = Called(out)
            /\ out.kind = "return" =>
                 Result_isSuccess(ret) /\ Result_value(ret) = Return(out.val)
            /\ out.kind = "throw" =>
                 /\ Result_isFailure(ret)
                 /\ out.val.t = "Error" => Result_error(ret) = out.val
                 /\ out.val.t # "Error" =>
                      Result_error(ret) = Str(String(out.val))
       ELSE FailurePassedOn(self, ret)

C7_Witness ==
  /\ resLast.op = "map"
  /\ resLast.fn = "throwNumber"
  /\ Result_isSuccess(rs[resLast.self])
  /\ rs[resLast.out.val.id].error = Str("1")

\* C8 as stated: flatMap(fn) on a success returns exactly the Result that
\* fn(value) produced; on a failure, a failure with the original error, fn
\* not called.
C8_FlatMapAsStated ==
  resLast.op = "flatMap" =>
    LET self == rs[resLast.self]
        ret == rs[resLast.out.val.id]
    IN IF Result_isSuccess(self)
       THEN /\ resLast.call.called
            /\ resLast.call.out.kind = "return"
            /\ resLast.out.val = resLast.call.out.val
       ELSE FailurePassedOn(self, ret)

\* C8, amended: flatMap(fn) on a success returns exactly the Result that
\* fn(value) produced when fn returns, and when fn throws a failure whose
\* error is the thrown Error, or String(thrown) for any other thrown value; on
\* a failure, a failure with the original error, fn not called.
C8_FlatMapCatches ==
  resLast.op = "flatMap" =>
    LET self == rs[resLast.self]
        ret == rs[resLast.out.val.id]
        fnOut == resLast.call.out
    IN IF Result_isSuccess(self)
       THEN /\ resLast.call.called
            /\ fnOut.kind = "return" => resLast.out.val = fnOut.val
            /\ fnOut.kind = "throw" =>
                 /\ Result_isFailure(ret)
                 /\ fnOut.val.t = "Error" => Result_error(ret) = fnOut.val
                 /\ fnOut.val.t # "Error" =>
                      Result_error(ret) = Str(String(fnOut.val))
       ELSE FailurePassedOn(self, ret)

C8_Witness ==
  /\ resLast.op = "flatMap"
  /\ resLast.fn = "returnFirst"
  /\ Result_isSuccess(rs[resLast.self])
  /\ resLast.self # 1
  /\ resLast.out.val.id = 1
  /\ Result_isFailure(rs[1])

(* ========================================================== ValueObject *)
\* new Date(time)
DateObj(id, time) == JsVal("date", id, time, "", <<>>, <<>>)
\* an object literal with own keys k and their values a, in insertion order
Obj(id, k, a) == JsVal("object", id, 0, "", k, a)

\* typeof v
TypeOf(v) ==
  CASE v.t = "undefined" -> "undefined"
    [] v.t = "number" -> "number"
    [] v.t = "string" -> "string"
    [] OTHER -> "object"

IsNullish(v) == v.t \in {"null", "undefined"}

\* a === b: primitives by value, objects by identity
StrictEq(a, b) ==
  /\ a.t = b.t
  /\ CASE a.t \in {"undefined", "null"} -> TRUE
       [] a.t = "number" -> a.n = b.n
       [] a.t = "string" -> a.s = b.s
       [] OTHER -> a.id = b.id

\* Object.keys(v): the indices of an array, the own keys of an object, none
\* for a Date
ObjectKeys(v) ==
  CASE v.t = "array" -> [i \in DOMAIN v.a |-> Digits[i]]
    [] v.t = "object" -> v.k
    [] OTHER -> <<>>

Includes(keys, key) == \E i \in DOMAIN keys : keys[i] = key

\* v[key]
GetProp(v, key) ==
  LET keys == ObjectKeys(v)
  IN IF Includes(keys, key)
     THEN v.a[CHOOSE i \in DOMAIN keys : keys[i] = key]
     ELSE Undefined

\* private deepEquals(a, b)
RECURSIVE deepEquals(_, _)
deepEquals(a, b) ==
  IF StrictEq(a, b) THEN TRUE
  ELSE IF IsNullish(a) \/ IsNullish(b) THEN StrictEq(a, b)
  ELSE IF TypeOf(a) # TypeOf(b) THEN FALSE
  ELSE IF a.t = "array" /\ b.t = "array"
    THEN IF Len(a.a) # Len(b.a) THEN FALSE
         ELSE \A index \in DOMAIN a.a : deepEquals(a.a[index], b.a[index])
  ELSE IF TypeOf(a) = "object" /\ TypeOf(b) = "object"
    THEN LET keysA == ObjectKeys(a)
             keysB == ObjectKeys(b)
         IN IF Len(keysA) # Len(keysB) THEN FALSE
            ELSE \A i \in DOMAIN keysA :
                   /\ Includes(keysB, keysA[i])
                   /\ deepEquals(GetProp(a, keysA[i]), GetProp(b, keysA[i]))
  ELSE IF a.t = "date" /\ b.t = "date" THEN a.n = b.n
  ELSE FALSE

\* A value object: its class and what getEqualityComponents() returns.
\* null and undefined, as arguments of equals, have no components.
ValueObj(cls, comps) == [cls |-> cls, comps |-> comps]
NullObj == ValueObj("null", <<>>)
UndefinedObj == ValueObj("undefined", <<>>)

\* other.getEqualityComponents()[index]
ComponentAt(vo, index) ==
  IF index \in DOMAIN vo.comps THEN vo.comps[index] ELSE Undefined

\* equals(other)
ValueObject_equals(this, other) ==
  IF other = NullObj \/ other = UndefinedObj THEN FALSE
  ELSE IF this.cls # other.cls THEN FALSE
  ELSE \A index \in DOMAIN this.comps :
         deepEquals(this.comps[index], ComponentAt(other, index))

(* -------------------------------------------------- steps of ValueObject *)
\* The values a value object is given as equality components.
Components ==
  {Null, Undefined, Num(MaxNum), Str("USD"), Str("EUR"),
   DateObj(1, 1000), DateObj(2, 1000), DateObj(3, 2000),
   Arr(4, <<Num(MaxNum)>>), Arr(5, <<Num(MaxNum)>>), Arr(6, <<Num(MaxNum), Str("USD")>>),
   Obj(7, <<"title">>, <<Str("Mr.")>>), Obj(8, <<"title">>, <<Str("Dr.")>>),
   Obj(9, <<"0">>, <<Num(MaxNum)>>)}

RECURSIVE ComponentLists(_)
ComponentLists(n) ==
  IF n = 0 THEN {<<>>}
  ELSE LET shorter == ComponentLists(n - 1)
       IN shorter \cup {Append(l, c) : l \in shorter, c \in Components}

ValueClasses == {"Money", "Address"}
ValueObjects ==
  {ValueObj(cls, comps) : cls \in ValueClasses, comps \in ComponentLists(MaxComps)}

VoCall(op, ret) == [op |-> op, ret |-> ret]

VoInit ==
  /\ voThis \in ValueObjects
  /\ voOther \in ValueObjects \cup {NullObj, UndefinedObj}
  /\ voLast = VoCall("new", FALSE)

\* The value objects of a run that is about something else.
VoIdle ==
  /\ voThis = ValueObj("Money", <<>>)
  /\ voOther = NullObj
  /\ voLast = VoCall("new", FALSE)

VoEquals ==
  /\ UNCHANGED <<aggVars, resVars, entVars, evVars, ucVars>>
  /\ voLast.op = "new"
  /\ voLast' = VoCall("equals", ValueObject_equals(voThis, voOther))
  /\ UNCHANGED <<voThis, voOther>>

\* other.equals(this): the same call, the other way round
VoEqualsReversed ==
  /\ UNCHANGED <<aggVars, resVars, entVars, evVars, ucVars>>
  /\ voLast.op = "new"
  /\ voOther \notin {NullObj, UndefinedObj}
  /\ voLast' = VoCall("equalsReversed", ValueObject_equals(voOther, voThis))
  /\ UNCHANGED <<voThis, voOther>>

VoNext ==
  \/ VoEquals
  \/ VoEqualsReversed

(* -------------------------------------------------- claims: ValueObject *)
\* Deep equality of two values: the same primitive, arrays with deeply equal
\* elements, objects with the same keys and deeply equal values, Dates of the
\* same instant.
RECURSIVE DeeplyEqual(_, _)
DeeplyEqual(a, b) ==
  /\ a.t = b.t
  /\ a.n = b.n
  /\ a.s = b.s
  /\ Len(a.a) = Len(b.a)
  /\ {a.k[i] : i \in DOMAIN a.k} = {b.k[i] : i \in DOMAIN b.k}
  /\ IF a.t = "object"
     THEN \A i \in DOMAIN a.k : DeeplyEqual(GetProp(a, a.k[i]), GetProp(b, a.k[i]))
     ELSE \A i \in DOMAIN a.a : DeeplyEqual(a.a[i], b.a[i])

\* C9: equals(other) is true exactly when other is not null or undefined, is
\* of the same class, and the two component lists have the same length and
\* are pairwise deeply equal.
C9_EqualsAsStated ==
  voLast.op = "equals" =>
    voLast.ret =
      /\ voOther \notin {NullObj, UndefinedObj}
      /\ voOther.cls = voThis.cls
      /\ Len(voOther.comps) = Len(voThis.comps)
      /\ \A i \in DOMAIN voThis.comps :
           DeeplyEqual(voThis.comps[i], voOther.comps[i])

\* The inputs on which equals departs from C9: both states are reachable.
C9_DatesOfDifferentInstantsEqual ==
  /\ voLast.op = "equals"
  /\ voLast.ret
  /\ voThis.comps = <<DateObj(1, 1000)>>
  /\ voOther.comps = <<DateObj(3, 2000)>>

C9_LongerListEqual ==
  /\ voLast.op = "equals"
  /\ voLast.ret
  /\ voThis.comps = <<Str("USD")>>
  /\ voOther.comps = <<Str("USD"), Str("EUR")>>

(* =============================================================== Entity *)
\* An entity instance: its class, its id (a value object), and the state of
\* the test subclasses: a name (TestEntity.name, TestAggregate.data) and, for
\* an aggregate, the number of its uncommitted events.
EntityObj(cls, id, name, events) ==
  [cls |-> cls, id |-> id, name |-> name, events |-> events]

\* null and undefined as the argument of equals
NullRef == 0
UndefinedRef == -1

IsAggregate(e) == e.cls = "TestAggregate"

\* equals with the fault of comparing the name as well
Entity_equals_comparesName(es, this, other) ==
  IF other = NullRef \/ other = UndefinedRef THEN FALSE
  ELSE IF this = other THEN TRUE
  ELSE IF es[this].cls # es[other].cls THEN FALSE
  ELSE /\ ValueObject_equals(es[this].id, es[other].id)
       /\ es[this].name = es[other].name

\* equals(other)
Entity_equals(es, this, other) ==
  IF other = NullRef \/ other = UndefinedRef THEN FALSE
  ELSE IF this = other THEN TRUE
  ELSE IF es[this].cls # es[other].cls THEN FALSE
  ELSE ValueObject_equals(es[this].id, es[other].id)

(* ------------------------------------------------------- steps of Entity *)
EntityClasses == {"TestEntity", "AnotherTestEntity", "TestAggregate"}
EntityIds ==
  {ValueObj("TestId", <<Str("test-123")>>),
   ValueObj("TestId", <<Str("test-456")>>),
   ValueObj("OtherId", <<Str("test-123")>>)}
EntityNames == {"Entity One", "Entity Two"}
EntityRefs == 1..NumEntities

EntCall(op, this, other, ret) ==
  [op |-> op, this |-> this, other |-> other, ret |-> ret]

\* new TestEntity(id, name), new AnotherTestEntity(id), and
\* new TestAggregate(id, data), which raises TestEventCreated
NewEntity(cls, id, name) ==
  EntityObj(cls, id, name, IF cls = "TestAggregate" THEN 1 ELSE 0)

EntInit ==
  /\ entGiven \in [EntityRefs -> EntityIds]
  /\ entities \in
       {[ref \in EntityRefs |-> NewEntity(cls[ref], entGiven[ref], name[ref])] :
          cls \in [EntityRefs -> EntityClasses],
          name \in [EntityRefs -> EntityNames]}
  /\ entLast = EntCall("new", 0, 0, FALSE)

\* The entities of a run that is about something else.
EntIdle ==
  /\ entGiven = [ref \in EntityRefs |-> ValueObj("TestId", <<Str("test-123")>>)]
  /\ entities = [ref \in EntityRefs |->
                   NewEntity("TestEntity", ValueObj("TestId", <<Str("test-123")>>),
                             "Entity One")]
  /\ entLast = EntCall("new", 0, 0, FALSE)

\* TestEntity.updateName(name); TestAggregate.updateData(newData), which also
\* raises TestEventUpdated
EntUpdateName ==
  /\ UNCHANGED <<aggVars, resVars, voVars, evVars, ucVars>>
  /\ \E ref \in EntityRefs, name \in EntityNames :
       /\ IsAggregate(entities[ref]) => entities[ref].events <= MaxEntityEvents
       /\ entities[ref].cls # "AnotherTestEntity"
       /\ entities' = [entities EXCEPT
            ![ref].name = name,
            ![ref].events = IF IsAggregate(entities[ref]) THEN @ + 1 ELSE @]
       /\ entLast' = EntCall("updateName", ref, 0, FALSE)
  /\ UNCHANGED entGiven

\* markEventsAsCommitted() on an aggregate
EntCommit ==
  /\ UNCHANGED <<aggVars, resVars, voVars, evVars, ucVars>>
  /\ \E ref \in EntityRefs :
       /\ IsAggregate(entities[ref])
       /\ entities' = [entities EXCEPT ![ref].events = 0]
       /\ entLast' = EntCall("markEventsAsCommitted", ref, 0, FALSE)
  /\ UNCHANGED entGiven

\* replayEvents with the fault of an applyEvent that takes the id over from
\* the replayed events
Entity_replayEvents_takesId(es, ref, id) ==
  [es EXCEPT ![ref].events = 0, ![ref].id = id]

\* replayEvents(events) on an aggregate whose events carry the aggregate id
\* `id`: applyEvent does nothing, the uncommitted events are dropped
Entity_replayEvents(es, ref, id) ==
  [es EXCEPT ![ref].events = 0]

EntReplay ==
  /\ UNCHANGED <<aggVars, resVars, voVars, evVars, ucVars>>
  /\ \E ref \in EntityRefs, id \in EntityIds :
       /\ IsAggregate(entities[ref])
       /\ entities' = Entity_replayEvents(entities, ref, id)
       /\ entLast' = EntCall("replayEvents", ref, 0, FALSE)
  /\ UNCHANGED entGiven

EntEquals ==
  /\ UNCHANGED <<aggVars, resVars, voVars, evVars, ucVars>>
  /\ \E this \in EntityRefs, other \in EntityRefs \cup {NullRef, UndefinedRef} :
       entLast' = EntCall("equals", this, other, Entity_equals(entities, this, other))
  /\ UNCHANGED <<entities, entGiven>>

EntNext ==
  \/ EntUpdateName
  \/ EntCommit
  \/ EntReplay
  \/ EntEquals

(* ------------------------------------------------------- claims: Entity *)
\* The entities with the fields of `other` that are not its id replaced.
WithOtherState(es, other, name, events) ==
  [es EXCEPT ![other].name = name, ![other].events = events]

\* C10: equals(other) is true exactly when other is the same instance, or is
\* not null or undefined, is of the same class and has an id that equals this
\* id; the name and the events of either entity do not change the result.
C10_EntityEqualsById ==
  entLast.op = "equals" =>
    LET this == entLast.this
        other == entLast.other
    IN /\ entLast.ret =
            /\ other \in EntityRefs
            /\ \/ other = this
               \/ /\ entities[other].cls = entities[this].cls
                  /\ ValueObject_equals(entities[this].id, entities[other].id)
       /\ other \in EntityRefs =>
            \A name \in EntityNames, events \in 0..(MaxEntityEvents + 1) :
              /\ Entity_equals(WithOtherState(entities, other, name, events),
                               this, other) = entLast.ret
              /\ Entity_equals(WithOtherState(entities, this, name, events),
                               other, this) = entLast.ret

C10_Witness ==
  /\ entLast.op = "equals"
  /\ entLast.ret
  /\ entLast.other \in EntityRefs
  /\ entLast.other # entLast.this
  /\ IsAggregate(entities[entLast.this])
  /\ entities[entLast.this].name # entities[entLast.other].name
  /\ entities[entLast.this].events # entities[entLast.other].events

\* C11: the id of an entity is the one it was constructed with, and stays so
\* through updates of its state, raise, markEventsAsCommitted and replayEvents.
C11_IdIsStable ==
  \A ref \in EntityRefs : entities[ref].id = entGiven[ref]

C11_Witness ==
  /\ entLast.op = "replayEvents"
  /\ \E ref \in EntityRefs :
       /\ IsAggregate(entities[ref])
       /\ ref = entLast.this
       /\ entities[ref].id = ValueObj("TestId", <<Str("test-456")>>)
       /\ entities[ref].name = "Entity Two"
       /\ \E other \in EntityRefs : entGiven[other] # entGiven[ref]

(* =========================================================== DomainEvent *)
\* the instants in use: the time the clock starts at and a later one
Instants == {1000, 2000}
LaterInstant(t) == CHOOSE u \in Instants : u > t
NoDate == 0

\* import { randomUUID } from 'node:crypto': a version 4 UUID, 122 random
\* bits. Its contract is modelled: any value it has not returned before.
Uuids == {"uuid-" \o ToString(n) : n \in 1..MaxEventObjs}
randomUUID(given) == Uuids \ given

EventTypes == {"UserRegistered", "", " "}
UserIds == {"user-123"}

\* String.prototype.trim on the event types in use
Trim(str) == IF str = " " THEN "" ELSE str

EventObj(eventId, eventType, occurredAt, userId, frozen) ==
  [eventId |-> eventId, eventType |-> eventType, occurredAt |-> occurredAt,
   userId |-> userId, frozen |-> frozen]

EvCall(op, arg, threw) == [op |-> op, arg |-> arg, threw |-> threw]

\* if (!eventType || eventType.trim().length === 0) throw
EventTypeRejected(eventType) == eventType = "" \/ Trim(eventType) = ""

\* the constructor with the fault of an id derived from the event's data
DomainEvent_constructor_idFromType(ds, eventType, userId, occurredAt, uuid, now) ==
  [event |-> EventObj(eventType \o ":" \o userId, eventType,
                      IF occurredAt # NoDate THEN occurredAt ELSE Len(ds) + 1,
                      userId, TRUE),
   dates |-> IF occurredAt # NoDate THEN ds ELSE Append(ds, now)]

\* the constructor with the fault of always stamping the current time
DomainEvent_constructor_ignoresGiven(ds, eventType, userId, occurredAt, uuid, now) ==
  [event |-> EventObj(uuid, eventType, Len(ds) + 1, userId, TRUE),
   dates |-> Append(ds, now)]

\* new UserRegisteredEvent(userId, email, occurredAt): super(eventType,
\* occurredAt) sets eventId, eventType and occurredAt || new Date(), the
\* subclass sets its fields and calls freeze(). `uuid` is what randomUUID
\* returned, `now` the clock; the result is the event and the Date heap.
DomainEvent_constructor(ds, eventType, userId, occurredAt, uuid, now) ==
  [event |-> EventObj(uuid, eventType,
                      IF occurredAt # NoDate THEN occurredAt ELSE Len(ds) + 1,
                      userId, TRUE),
   dates |-> IF occurredAt # NoDate THEN ds ELSE Append(ds, now)]

\* what a reader of the event sees: its fields, and the instant of occurredAt
Reported(ds, event) ==
  [eventId |-> event.eventId, eventType |-> event.eventType,
   instant |-> ds[event.occurredAt], userId |-> event.userId]

\* event[field] = value on an object Object.freeze was called on: the
\* assignment is rejected (a TypeError in a module, which is strict code)
AssignField(event, field, value) ==
  IF event.frozen THEN event ELSE [event EXCEPT ![field] = value]

AssignableValues(field) ==
  IF field = "occurredAt" THEN {1}
  ELSE IF field = "eventId" THEN {"changed-id"}
  ELSE IF field = "eventType" THEN {"Changed"}
  ELSE {"user-456"}

EvInit ==
  /\ dates = <<>>
  /\ evs = <<>>
  /\ issued = {}
  /\ clock = 1000
  /\ evGiven = <<>>
  /\ evLast = EvCall("none", NoDate, FALSE)

\* a caller makes a Date of its own: new Date(t)
EvNewDate ==
  /\ UNCHANGED <<aggVars, resVars, voVars, entVars, ucVars>>
  /\ Len(dates) < MaxDates
  /\ \E t \in Instants :
       /\ dates' = Append(dates, t)
       /\ evLast' = EvCall("newDate", NoDate, FALSE)
  /\ UNCHANGED <<evs, issued, clock, evGiven>>

\* time passes (vi.advanceTimersByTime in the tests)
EvTick ==
  /\ UNCHANGED <<aggVars, resVars, voVars, entVars, ucVars>>
  /\ \E u \in Instants : u > clock
  /\ clock' = LaterInstant(clock)
  /\ evLast' = EvCall("tick", NoDate, FALSE)
  /\ UNCHANGED <<dates, evs, issued, evGiven>>

\* new SomeEvent(...) with or without a Date of the caller
EvNew ==
  /\ UNCHANGED <<aggVars, resVars, voVars, entVars, ucVars>>
  /\ \E eventType \in EventTypes, userId \in UserIds,
        occurredAt \in {NoDate} \cup DOMAIN dates :
       IF EventTypeRejected(eventType)
       THEN /\ evLast' = EvCall("new", NoDate, TRUE)
            /\ UNCHANGED <<dates, evs, issued, evGiven>>
       ELSE /\ Len(evs) < MaxEventObjs
            /\ occurredAt = NoDate => Len(dates) < MaxDates
            /\ \E uuid \in randomUUID(issued) :
                 LET made == DomainEvent_constructor(dates, eventType, userId,
                                                     occurredAt, uuid, clock)
                 IN /\ evs' = Append(evs, made.event)
                    /\ dates' = made.dates
                    /\ issued' = issued \cup {uuid}
                    /\ evGiven' = Append(evGiven, Reported(made.dates, made.event))
                    /\ evLast' = EvCall("new", occurredAt, FALSE)
  /\ UNCHANGED clock

\* a holder of a Date (the caller who passed it in, or anyone reading
\* event.occurredAt) calls setTime on it
EvSetTime ==
  /\ UNCHANGED <<aggVars, resVars, voVars, entVars, ucVars>>
  /\ \E ref \in DOMAIN dates, t \in Instants :
       /\ dates' = [dates EXCEPT ![ref] = t]
       /\ evLast' = EvCall("setTime", NoDate, FALSE)
  /\ UNCHANGED <<evs, issued, clock, evGiven>>

\* a holder of an event assigns to one of its fields
EvAssign ==
  /\ UNCHANGED <<aggVars, resVars, voVars, entVars, ucVars>>
  /\ \E ref \in DOMAIN evs,
        field \in {"eventId", "eventType", "occurredAt", "userId"} :
       \E value \in AssignableValues(field) :
         /\ evs' = [evs EXCEPT ![ref] = AssignField(evs[ref], field, value)]
         /\ evLast' = EvCall("assign", NoDate, evs[ref].frozen)
  /\ UNCHANGED <<dates, issued, clock, evGiven>>

EvNext ==
  \/ EvNewDate
  \/ EvTick
  \/ EvNew
  \/ EvSetTime
  \/ EvAssign

\* C12: any two domain events ever created have different eventIds, and every
\* eventId is a non-empty string.
C12_EventIdsUnique ==
  /\ \A i, j \in DOMAIN evs : i # j => evs[i].eventId # evs[j].eventId
  /\ \A i \in DOMAIN evs : evs[i].eventId # ""

C12_Witness ==
  /\ Len(evs) = 2
  /\ evs[1].eventType = evs[2].eventType
  /\ evs[1].userId = evs[2].userId
  /\ dates[evs[1].occurredAt] = dates[evs[2].occurredAt]

\* C13: an event constructed with an occurredAt reports that Date; one
\* constructed without reports the time of the clock at its construction.
C13_OccurredAtAsGiven ==
  (evLast.op = "new" /\ ~evLast.threw) =>
     LET event == Last(evs)
     IN IF evLast.arg # NoDate
        THEN event.occurredAt = evLast.arg
        ELSE /\ dates[event.occurredAt] = clock
             /\ \A i \in DOMAIN Front(evs) :
                  evs[i].occurredAt # event.occurredAt

C13_Witness ==
  /\ evLast.op = "new"
  /\ ~evLast.threw
  /\ evLast.arg # NoDate
  /\ clock = 2000
  /\ dates[Last(evs).occurredAt] = 1000

C13_WitnessDefault ==
  /\ evLast.op = "new"
  /\ ~evLast.threw
  /\ evLast.arg = NoDate
  /\ clock = 2000
  /\ dates[Last(evs).occurredAt] = 2000
  /\ Len(evs) = 2
  /\ dates[evs[1].occurredAt] = 1000

\* C14: a domain event is immutable after creation: nothing a holder of the
\* event or of its constructor arguments does later changes the eventId, the
\* eventType, the instant of occurrence or the subclass fields it reports.
C14_EventImmutable ==
  \A i \in DOMAIN evs : Reported(dates, evs[i]) = evGiven[i]

\* What freeze() does give: the fields of the event itself stay as they were.
C14_FieldsFrozen ==
  [][\A i \in DOMAIN evs : evs'[i] = evs[i]]_vars

(* =========================================================== BaseUseCase *)
\* concrete use cases, one per base class
UseCaseClasses == {"GetReport", "CreateUser", "FindUser"}
BaseClass(cls) ==
  IF cls = "CreateUser" THEN "BaseCommandUseCase"
  ELSE IF cls = "FindUser" THEN "BaseQueryUseCase"
  ELSE "BaseUseCase"

\* getRequiredPermission: undefined unless overridden
NoPermission == ""
Permissions == {NoPermission, "users:write"}

UseCaseObj(cls, authorizationService, permission) ==
  [cls |-> cls, authorizationService |-> authorizationService,
   permission |-> permission]

\* execute(request, context?): a request or null; no context, a context
\* without a userId, or the context of a user
Requests == {"null", "request"}
Contexts == {"none", "anonymous", "user"}
UcArgs(request, context) == [request |-> request, context |-> context]

\* what an overridable step does: resolves to a success, resolves to a failure,
\* or throws
Outcomes == {"ok", "fail", "throw"}
StepResult(step, outcome, error) ==
  [step |-> step, outcome |-> outcome, error |-> error]
StepError(step) == step \o " failed"

\* Result.ok(value) and Result.fail(error), as execute returns them
UcResult(isSuccess, error) == [isSuccess |-> isSuccess, error |-> error]
NoResult == UcResult(TRUE, "(none)")

\* protected getUseCaseName(): this.constructor.name
getUseCaseName(uc) == uc.cls

\* catch (error): Result.fail(`Unexpected error in ${name}: ${message}`)
UnexpectedError(uc, r) ==
  UcResult(FALSE, "Unexpected error in " \o getUseCaseName(uc) \o ": " \o r.error)

\* BaseCommandUseCase.requiresAuthentication is true, BaseQueryUseCase's false;
\* BaseUseCase.execute never asks
requiresAuthentication(uc) == BaseClass(uc.cls) = "BaseCommandUseCase"

\* !context?.userId && this.requiresAuthentication()
AuthenticationMissing(uc, args) ==
  BaseClass(uc.cls) = "BaseCommandUseCase"
    /\ args.context # "user" /\ requiresAuthentication(uc)

\* if (context && this.authorizationService)
AuthorizationRuns(uc, args) == args.context # "none" /\ uc.authorizationService

\* if (xResult.isFailure) return Result.fail(xResult.error!), with the fault
\* of a preExecution whose result is not looked at
StopsOn_ignoresPreExecution(r) == r.outcome = "fail" /\ r.step # "preExecution"

\* if (xResult.isFailure) return Result.fail(xResult.error!); a failure of
\* executeImpl is returned as it is
StopsOn(r) == r.outcome = "fail"

\* the step execute goes on to when `step` resolved to a success
AfterStep(uc, args, step) ==
  IF step = "validateRequest"
  THEN IF AuthorizationRuns(uc, args) THEN "checkAuthorization" ELSE "preExecution"
  ELSE IF step = "checkAuthorization" THEN "preExecution"
  ELSE IF step = "preExecution" THEN "executeImpl"
  ELSE IF step = "executeImpl" THEN "postExecution"
  ELSE "returned"

\* BaseUseCase.validateRequest rejects a null request; an override may reject
\* others or throw
validateRequest(request, outcome) ==
  IF request = "null"
  THEN StepResult("validateRequest", "fail", "Request cannot be null or undefined")
  ELSE StepResult("validateRequest", outcome, StepError("validateRequest"))

\* checkAuthorization: the calls it makes, in order. Without a service or
\* without a required permission it resolves to a success and asks nobody;
\* otherwise it returns what authorizationService.authorize resolves to.
checkAuthorization(uc, outcome) ==
  IF ~uc.authorizationService \/ uc.permission = NoPermission
  THEN <<StepResult("checkAuthorization", "ok", "")>>
  ELSE <<StepResult("authorize", outcome, StepError("authorize")),
         StepResult("checkAuthorization", outcome, StepError("authorize"))>>

UcInit ==
  /\ useCase \in {UseCaseObj(cls, service, permission) :
       cls \in UseCaseClasses, service \in BOOLEAN, permission \in Permissions}
  /\ ucCall = UcArgs("request", "none")
  /\ ucPc = "idle"
  /\ ucTrace = <<>>
  /\ ucRet = NoResult

\* The use case of a run that is about something else.
UcIdle ==
  /\ useCase = UseCaseObj("GetReport", FALSE, NoPermission)
  /\ ucCall = UcArgs("request", "none")
  /\ ucPc = "idle"
  /\ ucTrace = <<>>
  /\ ucRet = NoResult

\* what execute does with the result of the step it awaited
UcAfter(calls) ==
  LET r == Last(calls)
  IN /\ ucTrace' = ucTrace \o calls
     /\ IF r.outcome = "throw"
        THEN ucPc' = "returned" /\ ucRet' = UnexpectedError(useCase, r)
        ELSE IF StopsOn(r)
        THEN ucPc' = "returned" /\ ucRet' = UcResult(FALSE, r.error)
        ELSE /\ ucPc' = AfterStep(useCase, ucCall, r.step)
             /\ ucRet' = IF ucPc' = "returned" THEN UcResult(TRUE, "") ELSE ucRet
     /\ UNCHANGED <<useCase, ucCall>>

\* execute(request, context) is called; BaseCommandUseCase.execute first
\* looks for a user
UcExecute ==
  /\ UNCHANGED <<aggVars, resVars, voVars, entVars, evVars>>
  /\ ucPc \in {"idle", "returned"}
  /\ \E request \in Requests, context \in Contexts :
       /\ ucCall' = UcArgs(request, context)
       /\ ucTrace' = <<>>
       /\ IF AuthenticationMissing(useCase, ucCall')
          THEN /\ ucPc' = "returned"
               /\ ucRet' = UcResult(FALSE, "Authentication required for this operation")
          ELSE /\ ucPc' = "validateRequest"
               /\ ucRet' = NoResult
  /\ UNCHANGED useCase

UcValidateRequest ==
  /\ UNCHANGED <<aggVars, resVars, voVars, entVars, evVars>>
  /\ ucPc = "validateRequest"
  /\ \E outcome \in Outcomes :
       UcAfter(<<validateRequest(ucCall.request, outcome)>>)

UcCheckAuthorization ==
  /\ UNCHANGED <<aggVars, resVars, voVars, entVars, evVars>>
  /\ ucPc = "checkAuthorization"
  /\ \E outcome \in Outcomes : UcAfter(checkAuthorization(useCase, outcome))

UcPreExecution ==
  /\ UNCHANGED <<aggVars, resVars, voVars, entVars, evVars>>
  /\ ucPc = "preExecution"
  /\ \E outcome \in Outcomes :
       UcAfter(<<StepResult("preExecution", outcome, StepError("preExecution"))>>)

UcExecuteImpl ==
  /\ UNCHANGED <<aggVars, resVars, voVars, entVars, evVars>>
  /\ ucPc = "executeImpl"
  /\ \E outcome \in Outcomes :
       UcAfter(<<StepResult("executeImpl", outcome, StepError("executeImpl"))>>)

\* if (result.isSuccess) postExecution(request, result.value, context)
UcPostExecution ==
  /\ UNCHANGED <<aggVars, resVars, voVars, entVars, evVars>>
  /\ ucPc = "postExecution"
  /\ \E outcome \in Outcomes :
       UcAfter(<<StepResult("postExecution", outcome, StepError("postExecution"))>>)

UcNext ==
  \/ UcExecute
  \/ UcValidateRequest
  \/ UcCheckAuthorization
  \/ UcPreExecution
  \/ UcExecuteImpl
  \/ UcPostExecution

\* the steps of the claim, in the order the claim gives them
StepOrder == <<"validateRequest", "checkAuthorization", "preExecution", "executeImpl">>
StepRank(step) ==
  IF \E k \in DOMAIN StepOrder : StepOrder[k] = step
  THEN CHOOSE k \in DOMAIN StepOrder : StepOrder[k] = step
  ELSE Len(StepOrder) + 1
Invoked(step) == \E i \in DOMAIN ucTrace : ucTrace[i].step = step
IsStep(r) == r.step # "authorize"

\* C15: execute runs validateRequest, checkAuthorization (only when there are
\* both a context and an authorization service), preExecution, executeImpl in
\* this order; the first of them that returns a failure makes execute return a
\* failure with that step's error, and no later step is invoked.
C15_StepsInOrder ==
  /\ \A i, j \in DOMAIN ucTrace :
       (i < j /\ IsStep(ucTrace[i]) /\ IsStep(ucTrace[j])) =>
          /\ StepRank(ucTrace[i].step) < StepRank(ucTrace[j].step)
          /\ ucTrace[i].outcome = "ok"
  /\ Invoked("checkAuthorization") =>
       (ucCall.context # "none" /\ useCase.authorizationService)
  /\ \A k \in DOMAIN StepOrder :
       Invoked(StepOrder[k]) =>
         \A m \in 1..(k - 1) :
           Invoked(StepOrder[m]) <=>
             (StepOrder[m] = "checkAuthorization" =>
                (ucCall.context # "none" /\ useCase.authorizationService))
  /\ \A i \in DOMAIN ucTrace :
       (IsStep(ucTrace[i]) /\ ucTrace[i].outcome = "fail"
          /\ StepRank(ucTrace[i].step) <= Len(StepOrder)) =>
          /\ i = Len(ucTrace)
          /\ ucPc = "returned"
          /\ ucRet = UcResult(FALSE, ucTrace[i].error)

C15_Witness ==
  /\ ucPc = "returned"
  /\ Len(ucTrace) = 4
  /\ ucTrace[1].step = "validateRequest"
  /\ ucTrace[3].step = "checkAuthorization"
  /\ ucTrace[4] = StepResult("preExecution", "fail", "preExecution failed")
  /\ ucRet = UcResult(FALSE, "preExecution failed")

\* C16: for a use case with an authorization service whose
\* getRequiredPermission returns a permission, execute invokes executeImpl
\* only after authorizationService.authorize returned a success for the request.
C16_AuthorizedBeforeExecuteImpl ==
  (useCase.authorizationService /\ useCase.permission # NoPermission) =>
     \A i \in DOMAIN ucTrace :
       ucTrace[i].step = "executeImpl" =>
         \E j \in 1..(i - 1) :
           ucTrace[j].step = "authorize" /\ ucTrace[j].outcome = "ok"

\* What the code does give: the same, for the calls that pass a context.
C16_AuthorizedWhenContextGiven ==
  (useCase.authorizationService /\ useCase.permission # NoPermission
     /\ ucCall.context # "none") =>
     \A i \in DOMAIN ucTrace :
       ucTrace[i].step = "executeImpl" =>
         \E j \in 1..(i - 1) :
           ucTrace[j].step = "authorize" /\ ucTrace[j].outcome = "ok"

(* ======================================================== specifications *)
\* Each specification runs one class of the kit; the state of the others
\* stays as it starts.
InitAggregate == AggInit /\ ResInit /\ VoIdle /\ EntIdle /\ EvInit /\ UcIdle
SpecAggregate == InitAggregate /\ [][AggNext]_vars

InitResult == AggInit /\ ResInit /\ VoIdle /\ EntIdle /\ EvInit /\ UcIdle
SpecResult == InitResult /\ [][ResNext]_vars

InitValueObject == AggInit /\ ResInit /\ VoInit /\ EntIdle /\ EvInit /\ UcIdle
SpecValueObject == InitValueObject /\ [][VoNext]_vars

InitEntity == AggInit /\ ResInit /\ VoIdle /\ EntInit /\ EvInit /\ UcIdle
SpecEntity == InitEntity /\ [][EntNext]_vars

InitEvent == AggInit /\ ResInit /\ VoIdle /\ EntIdle /\ EvInit /\ UcIdle
SpecEvent == InitEvent /\ [][EvNext]_vars
InitUseCase == AggInit /\ ResInit /\ VoIdle /\ EntIdle /\ EvInit /\ UcInit
SpecUseCase == InitUseCase /\ [][UcNext]_vars
====
